---- MODULE Spec2Model ----
(***************************************************************************)
(* The health-check route of backend/app/routers/health.py.                *)
(*                                                                         *)
(*   router = APIRouter(prefix="/health", tags=["health"])                 *)
(*   @router.api_route("", methods=["GET", "HEAD"],                        *)
(*                     response_model=HealthResponse)                      *)
(*   async def health() -> HealthResponse:                                 *)
(*       return HealthResponse()                                           *)
(*                                                                         *)
(* A request is received, dispatched against the routes the router holds,  *)
(* handled by the coroutine health(), and answered.  Requests are handled  *)
(* by independent tasks; their steps interleave freely.                    *)
(*                                                                         *)
(* Paths are sequences of segments: "/health" is <<"health">>, "/health/"  *)
(* is <<"health", "">> and "/health/x" is <<"health", "x">>.  A JSON body  *)
(* is the sequence of its <<key, value>> members; its length stands for    *)
(* the content-length.                                                     *)
(***************************************************************************)
EXTENDS Integers, Sequences, FiniteSets, TLC

\* routes           router.routes, the routes registered at import
\* redirect_slashes the router's slash redirection (on unless the
\*                  application turns it off)
\* log              the log lines written
\* heap             the HealthResponse instances constructed so far, each
\*                  with the request it was constructed for
\* reqs             the requests: what was sent, where its handling stands,
\*                  the instance the endpoint returned and the response
VARIABLES routes, redirect_slashes, log, heap, reqs

vars == <<routes, redirect_slashes, log, heap, reqs>>

\* Number of requests one behaviour receives.
MaxRequests == 2

Ids == 1..MaxRequests

------------------------------------------------------------------------------
\* The request alphabet.

Methods == {"GET", "HEAD", "POST", "PUT", "DELETE", "PATCH"}

HealthPath == <<"health">>

Paths == {<<"health">>, <<"health", "">>, <<"health", "x">>}

NoHeaders == "none"

Headers == {NoHeaders, "x-probe: 1"}

Queries == {"", "verbose=1"}

Bodies == {"", "{}"}

------------------------------------------------------------------------------
\* The router and its one route (module level, built at import).

\* APIRouter(prefix="/health")
RouterPrefix == <<"health">>

\* api_route("", ...): the empty sub-path
RoutePath == <<>>

RouteMethods_GetOnly == {"GET"}

RouteMethods_All == Methods

\* api_route(..., methods=["GET", "HEAD"])
RouteMethods == {"GET", "HEAD"}

\* router.routes after the decorator has run
router == {[path |-> RouterPrefix \o RoutePath, methods |-> RouteMethods,
            endpoint |-> "health"]}

\* HealthResponse(): the record with its default field values
HealthResponse == [status |-> "ok"]

\* Construction of the record with no arguments; ok = FALSE stands for a
\* validation error raised by the constructor.
HealthResponseInit == [ok |-> TRUE, value |-> HealthResponse]

------------------------------------------------------------------------------
\* Responses.

NoResponse == [status |-> 0, content_type |-> "", content_length |-> 0,
               location |-> <<>>, body |-> <<>>]

\* JSON encoding of a record of the response model: its members in order.
Serialize(rec) == <<<<"status", rec.status>>>>

\* JSON decoding into the response model.
Deserialize(body) == [status |-> body[1][2]]

JsonResponse(code, body) ==
    [status |-> code, content_type |-> "application/json",
     content_length |-> Len(body), location |-> <<>>, body |-> body]

RedirectResponse(target) ==
    [status |-> 307, content_type |-> "", content_length |-> 0,
     location |-> target, body |-> <<>>]

\* What goes on the wire: a HEAD response carries the headers of the
\* response and no body.
OnWire(method, resp) ==
    IF method = "HEAD" THEN [resp EXCEPT !.body = <<>>] ELSE resp

------------------------------------------------------------------------------
\* Route matching.

IsPrefix(s, t) == Len(s) <= Len(t) /\ SubSeq(t, 1, Len(s)) = s

matches_prefix(route, method, path) ==
    IF ~IsPrefix(route.path, path) THEN "NONE"
    ELSE IF method \in route.methods THEN "FULL" ELSE "PARTIAL"

\* Route.matches: the path is compared whole; a path that matches with a
\* method the route does not list is a partial match.
matches(route, method, path) ==
    IF path # route.path THEN "NONE"
    ELSE IF method \in route.methods THEN "FULL" ELSE "PARTIAL"

\* The path with its trailing slash removed, or added when it has none.
RedirectPath(path) ==
    IF path[Len(path)] = "" THEN SubSeq(path, 1, Len(path) - 1)
    ELSE Append(path, "")

------------------------------------------------------------------------------
\* State.

IdleRequest ==
    [method |-> "GET", path |-> HealthPath, headers |-> NoHeaders,
     query |-> "", body |-> "", pc |-> "idle", obj |-> 0,
     resp |-> NoResponse]

Init ==
    /\ routes = router
    /\ redirect_slashes \in BOOLEAN
    /\ log = <<>>
    /\ heap = <<>>
    /\ reqs = [id \in Ids |-> IdleRequest]

\* A request arrives.  Requests are numbered in order of arrival.
Receive(id, m, p, h, q, b) ==
    /\ reqs[id].pc = "idle"
    /\ IF id = 1 THEN TRUE ELSE reqs[id - 1].pc # "idle"
    /\ reqs' = [reqs EXCEPT ![id] =
                  [method |-> m, path |-> p, headers |-> h, query |-> q,
                   body |-> b, pc |-> "received", obj |-> 0,
                   resp |-> NoResponse]]
    /\ UNCHANGED <<routes, redirect_slashes, log, heap>>

\* The router looks for a route: a full match runs the endpoint, a partial
\* match answers 405, a match of the redirected path answers 307, and
\* anything else answers 404.
Dispatch(id) ==
    /\ reqs[id].pc = "received"
    /\ LET r == reqs[id]
           full == {rt \in routes : matches(rt, r.method, r.path) = "FULL"}
           partial == {rt \in routes :
                          matches(rt, r.method, r.path) = "PARTIAL"}
           redirected == {rt \in routes :
                             matches(rt, r.method, RedirectPath(r.path))
                                # "NONE"}
       IN  reqs' = [reqs EXCEPT ![id] =
             IF full # {} THEN [r EXCEPT !.pc = "handler"]
             ELSE IF partial # {} THEN
                [r EXCEPT !.pc = "done",
                          !.resp = OnWire(r.method,
                             JsonResponse(405,
                                <<<<"detail", "Method Not Allowed">>>>))]
             ELSE IF redirect_slashes /\ redirected # {} THEN
                [r EXCEPT !.pc = "done",
                          !.resp = OnWire(r.method,
                             RedirectResponse(RedirectPath(r.path)))]
             ELSE
                [r EXCEPT !.pc = "done",
                          !.resp = OnWire(r.method,
                             JsonResponse(404,
                                <<<<"detail", "Not Found">>>>))]]
    /\ UNCHANGED <<routes, redirect_slashes, log, heap>>

\* Mutants of the handler.

health_counted(id) ==
    /\ reqs[id].pc = "handler"
    /\ heap' = Append(heap, [owner |-> id,
                  value |-> [status |-> IF heap = <<>> THEN "ok"
                                        ELSE "degraded"]])
    /\ reqs' = [reqs EXCEPT ![id].pc = "returned", ![id].obj = Len(heap')]
    /\ UNCHANGED <<routes, redirect_slashes, log>>

health_shared(id) ==
    /\ reqs[id].pc = "handler"
    /\ heap' = Append(heap, [owner |-> id,
                  value |-> [status |->
                     IF \E j \in Ids \ {id} : reqs[j].pc = "returned"
                     THEN "busy" ELSE "ok"]])
    /\ reqs' = [reqs EXCEPT ![id].pc = "returned", ![id].obj = Len(heap')]
    /\ UNCHANGED <<routes, redirect_slashes, log>>

health_logging(id) ==
    /\ reqs[id].pc = "handler"
    /\ heap' = Append(heap, [owner |-> id, value |-> HealthResponse])
    /\ reqs' = [reqs EXCEPT ![id].pc = "returned", ![id].obj = Len(heap')]
    /\ log' = Append(log, "health")
    /\ UNCHANGED <<routes, redirect_slashes>>

health_raises(id) ==
    /\ reqs[id].pc = "handler"
    /\ reqs' = [reqs EXCEPT ![id].pc = "raised"]
    /\ UNCHANGED <<routes, redirect_slashes, log, heap>>

health_query(id) ==
    /\ reqs[id].pc = "handler"
    /\ heap' = Append(heap, [owner |-> id,
                  value |-> [status |-> IF reqs[id].query = "" THEN "ok"
                                        ELSE "verbose"]])
    /\ reqs' = [reqs EXCEPT ![id].pc = "returned", ![id].obj = Len(heap')]
    /\ UNCHANGED <<routes, redirect_slashes, log>>

health_cached(id) ==
    /\ reqs[id].pc = "handler"
    /\ heap' = IF heap = <<>>
               THEN <<[owner |-> id, value |-> HealthResponse]>> ELSE heap
    /\ reqs' = [reqs EXCEPT ![id].pc = "returned", ![id].obj = 1]
    /\ UNCHANGED <<routes, redirect_slashes, log>>

\* async def health(): return HealthResponse()
\* One step of the coroutine (it never awaits): a new record is constructed
\* and returned.  The request's headers, query and body are not parameters
\* of the coroutine.
health(id) ==
    /\ reqs[id].pc = "handler"
    /\ LET made == HealthResponseInit
       IN  IF made.ok
           THEN /\ heap' = Append(heap, [owner |-> id, value |-> made.value])
                /\ reqs' = [reqs EXCEPT ![id].pc = "returned",
                                        ![id].obj = Len(heap')]
           ELSE /\ heap' = heap
                /\ reqs' = [reqs EXCEPT ![id].pc = "raised"]
    /\ UNCHANGED <<routes, redirect_slashes, log>>

Respond_headLength(id) ==
    /\ reqs[id].pc \in {"returned", "raised"}
    /\ LET r == reqs[id]
           body == IF r.method = "HEAD" THEN <<>>
                   ELSE Serialize(heap[r.obj].value)
       IN  reqs' = [reqs EXCEPT ![id] =
             IF r.pc = "raised"
             THEN [r EXCEPT !.pc = "done",
                            !.resp = OnWire(r.method, JsonResponse(500, <<>>))]
             ELSE [r EXCEPT !.pc = "done",
                            !.resp = JsonResponse(200, body)]]
    /\ UNCHANGED <<routes, redirect_slashes, log, heap>>

\* response_model=HealthResponse: the returned record is encoded as the
\* JSON body of a 200 response; an exception of the endpoint becomes 500.
Respond(id) ==
    /\ reqs[id].pc \in {"returned", "raised"}
    /\ LET r == reqs[id]
       IN  reqs' = [reqs EXCEPT ![id] =
             IF r.pc = "raised"
             THEN [r EXCEPT !.pc = "done",
                            !.resp = OnWire(r.method, JsonResponse(500, <<>>))]
             ELSE [r EXCEPT !.pc = "done",
                            !.resp = OnWire(r.method,
                               JsonResponse(200,
                                  Serialize(heap[r.obj].value)))]]
    /\ UNCHANGED <<routes, redirect_slashes, log, heap>>

\* Requests of every method and path, without headers, query or body.
Next ==
    \/ \E id \in Ids, m \in Methods, p \in Paths :
          Receive(id, m, p, NoHeaders, "", "")
    \/ \E id \in Ids : Dispatch(id)
    \/ \E id \in Ids : health(id)
    \/ \E id \in Ids : Respond(id)

Spec == Init /\ [][Next]_vars

\* Requests of the route's methods to the route's path, with every
\* combination of headers, query string and body.
NextProbe ==
    \/ \E id \in Ids, m \in RouteMethods, h \in Headers, q \in Queries,
          b \in Bodies : Receive(id, m, HealthPath, h, q, b)
    \/ \E id \in Ids : Dispatch(id)
    \/ \E id \in Ids : health(id)
    \/ \E id \in Ids : Respond(id)

SpecProbe == Init /\ [][NextProbe]_vars

------------------------------------------------------------------------------
\* Vocabulary of the properties.

Arrived(id) == reqs[id].pc # "idle"

Done(id) == reqs[id].pc = "done"

\* A GET or HEAD request to /health.
Probe(id) ==
    /\ Arrived(id)
    /\ reqs[id].method \in {"GET", "HEAD"}
    /\ reqs[id].path = HealthPath

GetHealth(id) == Probe(id) /\ reqs[id].method = "GET"

HeadHealth(id) == Probe(id) /\ reqs[id].method = "HEAD"

\* A GET request to a path below /health.
GetBelow(id) ==
    /\ Arrived(id)
    /\ reqs[id].method = "GET"
    /\ reqs[id].path # HealthPath
    /\ IsPrefix(HealthPath, reqs[id].path)

ResponseHeaders(id) ==
    <<reqs[id].resp.content_type, reqs[id].resp.content_length,
      reqs[id].resp.location>>

\* The endpoint has been entered for the request.
Invoked(id) == reqs[id].pc \in {"handler", "returned", "raised"}
                  \/ reqs[id].obj # 0

------------------------------------------------------------------------------
\* C1: every answered GET or HEAD request to /health has status 200,
\* whatever requests were received and answered before it.
C1_Status200 ==
    \A id \in Ids : Probe(id) /\ Done(id) => reqs[id].resp.status = 200

\* A HEAD /health answered 200 after an earlier request was answered 405.
C1_Witness ==
    /\ Done(1) /\ reqs[1].resp.status = 405
    /\ HeadHealth(2) /\ Done(2) /\ reqs[2].resp.status = 200

\* C2 as stated: every answered GET to a path below /health has status 404.
C2_SubPath404 ==
    \A id \in Ids : GetBelow(id) /\ Done(id) => reqs[id].resp.status = 404

\* C2 as amended: a GET to a path below /health never enters the endpoint
\* and is never answered 200; it is answered 404, except that /health/ is
\* answered with a 307 redirect to /health when the router redirects
\* slashes.
C2_SubPathNotServed ==
    \A id \in Ids : GetBelow(id) =>
       /\ ~Invoked(id)
       /\ Done(id) =>
            IF redirect_slashes /\ reqs[id].path = <<"health", "">>
            THEN /\ reqs[id].resp.status = 307
                 /\ reqs[id].resp.location = HealthPath
            ELSE reqs[id].resp.status = 404

\* GET /health/x answered 404 and GET /health/ answered 307.
C2_Witness ==
    /\ GetBelow(1) /\ reqs[1].path = <<"health", "x">> /\ Done(1)
    /\ reqs[1].resp.status = 404
    /\ GetBelow(2) /\ reqs[2].path = <<"health", "">> /\ Done(2)
    /\ reqs[2].resp.status = 307

\* C3: the body of every answered GET /health decodes to the record with
\* its default field values, whatever calls came before.
C3_DefaultBody ==
    \A id \in Ids : GetHealth(id) /\ Done(id) =>
       /\ reqs[id].resp.body # <<>>
       /\ Deserialize(reqs[id].resp.body) = HealthResponse

\* A GET /health answered after a HEAD /health was handled before it.
C3_Witness ==
    /\ HeadHealth(1) /\ Done(1) /\ reqs[1].obj = 1
    /\ GetHealth(2) /\ Done(2) /\ reqs[2].obj = 2
    /\ Deserialize(reqs[2].resp.body) = HealthResponse

\* C4: an answered HEAD /health has status 200 and an empty body, and its
\* headers are those of every answered GET /health.
C4_HeadLikeGet ==
    \A id \in Ids : HeadHealth(id) /\ Done(id) =>
       /\ reqs[id].resp.status = 200
       /\ reqs[id].resp.body = <<>>
       /\ \A j \in Ids : GetHealth(j) /\ Done(j) =>
             ResponseHeaders(id) = ResponseHeaders(j)

\* A HEAD /health and a GET /health both answered, the GET with its body.
C4_Witness ==
    \E i, j \in Ids :
       /\ HeadHealth(i) /\ Done(i)
       /\ GetHealth(j) /\ Done(j) /\ reqs[j].resp.content_length > 0

\* C5: GET /health requests whose handling interleaves each get status 200
\* and the same default payload: a request whose endpoint has returned holds
\* the default record, and any two answered ones have equal bodies.
C5_Concurrent ==
    \A i \in Ids : GetHealth(i) =>
       /\ reqs[i].pc = "returned" =>
             heap[reqs[i].obj].value = HealthResponse
       /\ Done(i) =>
             /\ reqs[i].resp.status = 200
             /\ \A j \in Ids : GetHealth(j) /\ Done(j) =>
                   /\ reqs[j].resp.body = reqs[i].resp.body
                   /\ reqs[j].resp.body = Serialize(HealthResponse)

\* The second GET /health, received while the first was in flight, has been
\* answered while the first, whose endpoint ran second, still awaits its
\* answer.
C5_Witness ==
    /\ GetHealth(1) /\ reqs[1].pc = "returned" /\ reqs[1].obj = 2
    /\ GetHealth(2) /\ Done(2) /\ reqs[2].obj = 1
    /\ reqs[2].resp.status = 200

\* C6: a step that handles a GET or HEAD /health request leaves the routes,
\* the redirect setting and the log as they were, changes no other request
\* and no record already constructed.
C6_Frame ==
    [][\A id \in Ids :
          Probe(id) /\ reqs'[id] # reqs[id] =>
             /\ routes' = routes
             /\ redirect_slashes' = redirect_slashes
             /\ log' = log
             /\ \A j \in Ids \ {id} : reqs'[j] = reqs[j]
             /\ \A o \in DOMAIN heap : o \in DOMAIN heap' /\ heap'[o] = heap[o]
      ]_vars

\* Two probes fully handled, with the log empty and the routes as built.
C6_Witness ==
    /\ \A id \in Ids : Probe(id) /\ Done(id) /\ reqs[id].resp.status = 200
    /\ log = <<>>
    /\ routes = router

\* C7: for a GET or HEAD /health request the endpoint never raises: once
\* it has run, the request holds a constructed default record, and no 500
\* is answered.
C7_NoFailure ==
    \A id \in Ids : Probe(id) =>
       /\ reqs[id].pc # "raised"
       /\ reqs[id].resp.status # 500
       /\ reqs[id].pc \in {"returned", "done"} =>
             /\ reqs[id].obj \in DOMAIN heap
             /\ heap[reqs[id].obj].value = HealthResponse

\* The endpoint has returned for a GET and for a HEAD request.
C7_Witness ==
    /\ GetHealth(1) /\ reqs[1].pc = "returned"
    /\ HeadHealth(2) /\ reqs[2].pc = "returned"

\* C8: two answered probes with the same method have the same status,
\* headers and body, whatever their request headers, query and body.
C8_InputsIgnored ==
    \A i, j \in Ids :
       Probe(i) /\ Probe(j) /\ Done(i) /\ Done(j)
          /\ reqs[i].method = reqs[j].method
       => reqs[i].resp = reqs[j].resp

\* Two answered GET /health differing in headers, query and body.
C8_Witness ==
    /\ GetHealth(1) /\ Done(1) /\ GetHealth(2) /\ Done(2)
    /\ reqs[1].headers # reqs[2].headers
    /\ reqs[1].query # reqs[2].query
    /\ reqs[1].body # reqs[2].body

\* C9: the record a request holds was constructed for that request, and no
\* two requests hold the same record.
C9_Fresh ==
    \A i \in Ids : reqs[i].obj # 0 =>
       /\ reqs[i].obj \in DOMAIN heap
       /\ heap[reqs[i].obj].owner = i
       /\ \A j \in Ids \ {i} : reqs[j].obj # reqs[i].obj

\* Two requests each holding a record.
C9_Witness ==
    /\ reqs[1].obj # 0 /\ reqs[2].obj # 0
    /\ Done(1) /\ Done(2)

\* C10: a request to /health with a method other than GET and HEAD never
\* enters the endpoint and is never answered 200 or with the health payload.
C10_OtherMethods ==
    \A id \in Ids :
       Arrived(id) /\ reqs[id].path = HealthPath
          /\ reqs[id].method \notin {"GET", "HEAD"}
       => /\ ~Invoked(id)
          /\ reqs[id].resp.status # 200
          /\ reqs[id].resp.body # Serialize(HealthResponse)

\* A POST and a DELETE to /health, both answered 405.
C10_Witness ==
    /\ reqs[1].method = "POST" /\ reqs[1].path = HealthPath /\ Done(1)
    /\ reqs[2].method = "DELETE" /\ reqs[2].path = HealthPath /\ Done(2)
    /\ reqs[1].resp.status = 405 /\ reqs[2].resp.status = 405
====
